---- MODULE Spec2Model ----
(***************************************************************************)
(* A model of src/go/v8/binding.cc: the worker binding between a host      *)
(* process and a V8 isolate.  Host threads call the worker_* entry points; *)
(* each call is a frame on the calling thread's stack, script code runs in *)
(* "script" frames, and the host callbacks reached from script code        *)
(* (recvCb, recvSyncCb) run in "cb" frames from which the host may call    *)
(* back into the same worker.                                              *)
(***************************************************************************)
EXTENDS Integers, Sequences, FiniteSets, TLC

VARIABLES
  stack,              \* host thread -> its call stack (a sequence of frames)
  lockOwner,          \* worker -> thread holding the isolate's Locker
  recv,               \* worker -> worker_s::recv
  recv_sync_handler,  \* worker -> worker_s::recv_sync_handler
  last_exception,     \* worker -> worker_s::last_exception
  term,               \* worker -> state of the isolate's termination request
  url_to_module_map,  \* worker -> ModuleData::url_to_module_map
  module_to_url_map,  \* worker -> ModuleData::module_to_url_map
  fetched,            \* worker -> url -> number of getModuleSource calls
  compiled,           \* worker -> url -> number of successful CompileModule
  evaluated,          \* worker -> url -> number of Module::Evaluate calls
  imports,            \* source provider: url -> the imports its text declares
  compiles,           \* source provider: url -> whether its text compiles
  ret,                \* the last return of an entry point to the host
  ops,                \* top-level host calls the behaviour may still make
  calls,              \* calls across the boundary it may still make
  crashed,            \* the process hit undefined behaviour and aborted
  heap                \* worker -> the objects allocated for it and not freed

vars == <<stack, lockOwner, recv, recv_sync_handler, last_exception, term,
          url_to_module_map, module_to_url_map, fetched, compiled, evaluated,
          imports, compiles, ret, ops, calls, crashed, heap>>

slots == <<recv, recv_sync_handler>>
cache == <<url_to_module_map, module_to_url_map>>
counts == <<fetched, compiled, evaluated>>
provider == <<imports, compiles>>

----------------------------------------------------------------------------
(* Bounds of the model *)

\* top-level host calls in one behaviour
MaxOps == 2
\* calls across the boundary in one behaviour: $send and $sendSync from
\* script code, and entry points called from a host callback
MaxCalls == 2
\* LoadModule activations on one stack; more than there are modules
\* means an import cycle, which recurses until the stack is exhausted
MaxDepth == 3

Threads == {"t1", "t2"}
Workers == {"w1", "w2"}
Modules == {"A", "B", "C"}
Funcs == {"f1", "f2"}
Msgs == {"m1", "m2"}
Strs == {"r1", "r2"}

\* what worker_init allocates for a worker
HeapObjects == {"worker", "isolate", "array_buffer_allocator", "ModuleData"}

NoThread == "none"
NoFunc == ""
NonString == "<non-string>"
EmptyHandle == "<empty>"

----------------------------------------------------------------------------
(* Strings handed to the host *)

NoRecvDiag == "v8worker: callback not registered with $recv"
NoRecvSyncStr == "v8worker: callback not registered with $recvSync"
NonStringStr == "v8worker: non-string return value"

\* CopyString: malloc(value.length()) then strcpy, which writes the
\* characters and the terminating NUL.
CopyString(value) ==
  [str |-> value, alloc |-> Len(value), written |-> Len(value) + 1]

NoVal == [str |-> "", alloc |-> 0, written |-> 0]

\* nothing has returned to the host yet
NoRet == [t |-> "", op |-> "", w |-> "", arg |-> "", url |-> "", code |-> 0,
          val |-> NoVal, res |-> "", exc |-> "", n |-> 0, depth |-> 0]

\* ExceptionString: the formatted text of the exception a TryCatch holds.
ExceptionString(exc) == "exception: " \o exc

----------------------------------------------------------------------------
(* Frames *)

Frame(k, w) ==
  [k |-> k, w |-> w, pc |-> "run", has_lock |-> FALSE, url |-> "", i |-> 0,
   h |-> 0, sub |-> 0, fn |-> "", arg |-> "", res |-> "", exc |-> ""]

Top(t) == stack[t][Len(stack[t])]
Pop(s) == SubSeq(s, 1, Len(s) - 1)
SetTop(s, f) == [s EXCEPT ![Len(s)] = f]

ApiKinds == {"load_module", "load_script", "send", "send_sync"}
\* the entry points that declare a TryCatch
HasTryCatch(k) == k \in {"load_module", "load_script", "send"}

At(t, k, pc) ==
  /\ ~crashed
  /\ stack[t] # <<>>
  /\ Top(t).k = k
  /\ Top(t).pc = pc

----------------------------------------------------------------------------
(* The isolate lock *)

\* a Locker that blocks whenever the isolate is locked, also by the caller
LockerNotRecursive(t, w) ==
  IF lockOwner[w] = NoThread THEN "acquired" ELSE "blocked"

\* a Locker that does not wait for another thread's Locker
LockerNoWait(t, w) ==
  IF lockOwner[w] = t THEN "nested" ELSE "acquired"

\* v8::Locker's constructor: a no-op when the calling thread already holds
\* the isolate, otherwise it takes the isolate's lock or waits for it.
Locker(t, w) ==
  IF lockOwner[w] = t THEN "nested"
  ELSE IF lockOwner[w] = NoThread THEN "acquired"
  ELSE "blocked"

\* the worker has not been disposed of
Live(w) == "worker" \in heap[w]

\* The host may call an entry point on worker w from an idle thread, or
\* from the body of a host callback that script code of w reached.
CanCall(t, w) ==
  /\ ~crashed
  /\ Live(w)
  /\ \/ stack[t] = <<>> /\ ops > 0
     \/ /\ stack[t] # <<>>
        /\ Top(t).k = "cb"
        /\ Top(t).w = w
        /\ calls > 0

\* Entering an entry point: its first statement is Locker locker(w->isolate).
Enter(t, w, f) ==
  LET l == Locker(t, w)
      g == [f EXCEPT !.pc = IF l = "blocked" THEN "blocked" ELSE "run",
                     !.has_lock = (l = "acquired")]
  IN /\ stack' = [stack EXCEPT ![t] = Append(@, g)]
     /\ lockOwner' = IF l = "acquired" THEN [lockOwner EXCEPT ![w] = t]
                     ELSE lockOwner
     /\ ops' = IF stack[t] = <<>> THEN ops - 1 ELSE ops
     /\ calls' = IF stack[t] = <<>> THEN calls ELSE calls - 1

\* A thread waiting in the Locker constructor gets the isolate.
LockerWake(t) ==
  /\ ~crashed
  /\ stack[t] # <<>>
  /\ Top(t).pc = "blocked"
  /\ Locker(t, Top(t).w) # "blocked"
  /\ stack' = [stack EXCEPT ![t] = SetTop(@, [Top(t) EXCEPT
                   !.pc = "run", !.has_lock = (Locker(t, Top(t).w) = "acquired")])]
  /\ lockOwner' = IF Locker(t, Top(t).w) = "acquired"
                  THEN [lockOwner EXCEPT ![Top(t).w] = t] ELSE lockOwner
  /\ UNCHANGED <<slots, last_exception, term, cache, counts, provider, heap, ret,
                 ops, calls, crashed>>

\* Returning from an entry point: ~Locker releases the isolate if this frame's
\* Locker took it, and the host gets the return value.
ReturnFrom(t, f, code, val) ==
  /\ stack' = [stack EXCEPT ![t] = Pop(@)]
  /\ lockOwner' = IF f.has_lock
                  THEN [lockOwner EXCEPT ![f.w] = NoThread]
                  ELSE lockOwner
  /\ ret' = [t |-> t, op |-> f.k, w |-> f.w, arg |-> f.arg, url |-> f.url,
             code |-> code, val |-> val, res |-> f.res, exc |-> f.exc,
             n |-> f.i, depth |-> Len(stack[t])]

Return(t, code, val) == ReturnFrom(t, Top(t), code, val)

\* Calling into script code: a script frame above the caller, which counts
\* the call in its field i.
CallScript(t, fn, arg) ==
  stack' = [stack EXCEPT ![t] =
    Append(SetTop(@, [Top(t) EXCEPT !.pc = "called", !.i = @ + 1]),
           [Frame("script", Top(t).w) EXCEPT !.fn = fn, !.arg = arg])]

----------------------------------------------------------------------------
(* Script code: what a script body may do *)

InScript(t) ==
  /\ At(t, "script", "run")
  /\ term[Top(t).w] = "none"

\* a $recv that keeps the receiver registered first
RecvKeepFirst(t, fn) ==
  /\ InScript(t)
  /\ recv' = [recv EXCEPT ![Top(t).w] = IF @ = NoFunc THEN fn ELSE @]
  /\ UNCHANGED <<stack, lockOwner, recv_sync_handler, last_exception, term,
                 cache, counts, provider, heap, ret, ops, calls, crashed>>

\* $recv(fn)
Recv(t, fn) ==
  /\ InScript(t)
  /\ recv' = [recv EXCEPT ![Top(t).w] = fn]
  /\ UNCHANGED <<stack, lockOwner, recv_sync_handler, last_exception, term,
                 cache, counts, provider, heap, ret, ops, calls, crashed>>

\* $recvSync(fn)
RecvSync(t, fn) ==
  /\ InScript(t)
  /\ recv_sync_handler' = [recv_sync_handler EXCEPT ![Top(t).w] = fn]
  /\ UNCHANGED <<stack, lockOwner, recv, last_exception, term, cache, counts,
                 provider, heap, ret, ops, calls, crashed>>

\* The block of Send and SendSync that reads the argument under a Locker:
\* the isolate's owner after the block's Locker is destroyed.
BlockLocker(t, w) ==
  IF Locker(t, w) = "nested" THEN lockOwner[w] ELSE NoThread

\* $send(msg): reads the argument, then calls recvCb
Send(t, msg) ==
  /\ InScript(t)
  /\ calls > 0
  /\ IF Locker(t, Top(t).w) = "blocked"
     THEN /\ stack' = [stack EXCEPT ![t] =
               SetTop(@, [Top(t) EXCEPT !.pc = "blocked"])]
          /\ UNCHANGED <<lockOwner, calls>>
     ELSE /\ calls' = calls - 1
          /\ lockOwner' = [lockOwner EXCEPT ![Top(t).w] =
                             BlockLocker(t, Top(t).w)]
          /\ stack' = [stack EXCEPT ![t] =
               Append(@, [Frame("cb", Top(t).w) EXCEPT
                            !.fn = "recvCb", !.arg = msg])]
  /\ UNCHANGED <<slots, last_exception, term, cache, counts, provider, heap, ret,
                 ops, crashed>>

\* $sendSync(msg): reads the argument, then calls recvSyncCb
SendSync(t, msg) ==
  /\ InScript(t)
  /\ calls > 0
  /\ IF Locker(t, Top(t).w) = "blocked"
     THEN /\ stack' = [stack EXCEPT ![t] =
               SetTop(@, [Top(t) EXCEPT !.pc = "blocked"])]
          /\ UNCHANGED <<lockOwner, calls>>
     ELSE /\ calls' = calls - 1
          /\ lockOwner' = [lockOwner EXCEPT ![Top(t).w] =
                             BlockLocker(t, Top(t).w)]
          /\ stack' = [stack EXCEPT ![t] =
               Append(@, [Frame("cb", Top(t).w) EXCEPT
                            !.fn = "recvSyncCb", !.arg = msg])]
  /\ UNCHANGED <<slots, last_exception, term, cache, counts, provider, heap, ret,
                 ops, crashed>>

\* The host callback body returns to the script that called it.
CbReturn(t) ==
  /\ At(t, "cb", "run")
  /\ stack' = [stack EXCEPT ![t] = Pop(@)]
  /\ UNCHANGED <<lockOwner, slots, last_exception, term, cache, counts,
                 provider, heap, ret, ops, calls, crashed>>

\* The caller's frame after a script frame above it ended with result res,
\* having thrown exc ("" when it returned normally).
AfterScript(f, res, exc) ==
  [f EXCEPT !.pc = "returned", !.res = res,
            !.exc = IF exc # "" /\ HasTryCatch(f.k) THEN exc ELSE @]

EndScript(t, res, exc) ==
  stack' = [stack EXCEPT ![t] =
    SetTop(Pop(@), AfterScript(@[Len(@) - 1], res, exc))]

\* the script body returns the value v
ScriptReturn(t, v) ==
  /\ InScript(t)
  /\ EndScript(t, v, "")
  /\ UNCHANGED <<lockOwner, slots, last_exception, term, cache, counts,
                 provider, heap, ret, ops, calls, crashed>>

\* the script body throws
ScriptThrow(t) ==
  /\ InScript(t)
  /\ EndScript(t, EmptyHandle, "Error in " \o Top(t).fn)
  /\ UNCHANGED <<lockOwner, slots, last_exception, term, cache, counts,
                 provider, heap, ret, ops, calls, crashed>>

\* script frames of worker w below the top of thread t's stack
OuterScripts(t, w) ==
  {j \in 1..(Len(stack[t]) - 1) : stack[t][j].k = "script" /\ stack[t][j].w = w}

\* The engine honours a termination request at a check point of the running
\* script: the uncatchable exception unwinds every script frame of the isolate.
ScriptTerminate(t) ==
  /\ At(t, "script", "run")
  /\ term[Top(t).w] # "none"
  /\ EndScript(t, EmptyHandle, "Termination")
  /\ term' = [term EXCEPT ![Top(t).w] =
       IF OuterScripts(t, Top(t).w) = {} THEN "none" ELSE "unwinding"]
  /\ UNCHANGED <<lockOwner, slots, last_exception, cache, counts, provider, heap,
                 ret, ops, calls, crashed>>

----------------------------------------------------------------------------
(* worker_terminate_execution *)

\* a terminateExecution that takes the isolate's Locker like the entry points
worker_terminate_execution_locked(t, w) ==
  /\ ~crashed
  /\ stack[t] = <<>>
  /\ Locker(t, w) # "blocked"
  /\ term' = [term EXCEPT ![w] = IF @ = "none" THEN "requested" ELSE @]
  /\ UNCHANGED <<stack, lockOwner, slots, last_exception, cache, counts,
                 provider, heap, ret, ops, calls, crashed>>

\* w->isolate->TerminateExecution(), with no Locker: it raises the isolate's
\* termination request.
worker_terminate_execution(t, w) ==
  /\ ~crashed
  /\ stack[t] = <<>>
  /\ term' = [term EXCEPT ![w] = IF @ = "none" THEN "requested" ELSE @]
  /\ UNCHANGED <<stack, lockOwner, slots, last_exception, cache, counts,
                 provider, heap, ret, ops, calls, crashed>>

----------------------------------------------------------------------------
(* worker_dispose and worker_last_exception *)

\* no host thread is inside an entry point of worker w, or waiting for it
Idle(w) ==
  \A t \in Threads : \A j \in 1..Len(stack[t]) : stack[t][j].w # w

\* w->isolate->Dispose(); delete (w): the isolate, with the handles it
\* holds, and the worker struct are freed.  The ModuleData that
\* InitModuleData allocated with new and the array buffer allocator of
\* worker_init are deleted nowhere.
worker_dispose(t, w) ==
  /\ ~crashed
  /\ stack[t] = <<>>
  /\ ops > 0
  /\ Live(w)
  /\ Idle(w)
  /\ heap' = [heap EXCEPT ![w] = @ \ {"isolate", "worker"}]
  /\ ops' = ops - 1
  /\ ret' = [NoRet EXCEPT !.t = t, !.op = "dispose", !.w = w]
  /\ UNCHANGED <<stack, lockOwner, slots, last_exception, term, cache, counts,
                 provider, calls, crashed>>

\* return CopyString(w->last_exception), with no Locker; a read that
\* changes nothing is not counted in ops
worker_last_exception(t, w) ==
  /\ ~crashed
  /\ stack[t] = <<>>
  /\ Live(w)
  /\ ret' = [NoRet EXCEPT !.t = t, !.op = "last_exception", !.w = w,
                          !.val = CopyString(last_exception[w])]
  /\ UNCHANGED <<stack, lockOwner, slots, last_exception, term, cache, counts,
                 provider, heap, ops, calls, crashed>>

----------------------------------------------------------------------------
(* worker_load_script *)

worker_load_script(t, w, src) ==
  /\ CanCall(t, w)
  /\ Enter(t, w, [Frame("load_script", w) EXCEPT !.arg = src])
  /\ UNCHANGED <<slots, last_exception, term, cache, counts, provider, heap, ret,
                 crashed>>

\* Script::Compile, then script->Run()
worker_load_script_compile(t) ==
  /\ At(t, "load_script", "run")
  /\ IF Top(t).arg = "bad"
     THEN /\ last_exception' = [last_exception EXCEPT ![Top(t).w] =
                                  ExceptionString("SyntaxError in script")]
          /\ Return(t, 1, NoVal)
     ELSE /\ CallScript(t, "main", "")
          /\ UNCHANGED <<lockOwner, last_exception, ret>>
  /\ UNCHANGED <<slots, term, cache, counts, provider, heap, ops, calls, crashed>>

\* a worker_load_script that does not look at the result of script->Run()
worker_load_script_done_unchecked(t) ==
  /\ At(t, "load_script", "returned")
  /\ Return(t, 0, NoVal)
  /\ UNCHANGED <<slots, last_exception, term, cache, counts, provider, heap,
                 ops, calls, crashed>>

\* after script->Run(): result.IsEmpty()
worker_load_script_done(t) ==
  /\ At(t, "load_script", "returned")
  /\ IF Top(t).res = EmptyHandle
     THEN /\ last_exception' = [last_exception EXCEPT ![Top(t).w] =
                                  ExceptionString(Top(t).exc)]
          /\ Return(t, 2, NoVal)
     ELSE /\ Return(t, 0, NoVal)
          /\ UNCHANGED last_exception
  /\ UNCHANGED <<slots, term, cache, counts, provider, heap, ops, calls, crashed>>

----------------------------------------------------------------------------
(* worker_send *)

worker_send(t, w, msg) ==
  /\ CanCall(t, w)
  /\ Enter(t, w, [Frame("send", w) EXCEPT !.arg = msg])
  /\ UNCHANGED <<slots, last_exception, term, cache, counts, provider, heap, ret,
                 crashed>>

\* the receiver worker_send passes to recv->Call
SendArg(f) == f.arg

\* up to recv->Call(context->Global(), 1, args)
worker_send_call(t) ==
  /\ At(t, "send", "run")
  /\ IF recv[Top(t).w] = NoFunc
     THEN /\ last_exception' = [last_exception EXCEPT ![Top(t).w] = NoRecvDiag]
          /\ Return(t, 1, NoVal)
     ELSE /\ CallScript(t, recv[Top(t).w], SendArg(Top(t)))
          /\ UNCHANGED <<lockOwner, last_exception, ret>>
  /\ UNCHANGED <<slots, term, cache, counts, provider, heap, ops, calls, crashed>>

\* a worker_send that does not look at try_catch after the call
worker_send_done_unchecked(t) ==
  /\ At(t, "send", "returned")
  /\ Return(t, 0, NoVal)
  /\ UNCHANGED <<slots, last_exception, term, cache, counts, provider, heap, ops,
                 calls, crashed>>

\* after recv->Call: try_catch.HasCaught()
worker_send_done(t) ==
  /\ At(t, "send", "returned")
  /\ IF Top(t).exc # ""
     THEN /\ last_exception' = [last_exception EXCEPT ![Top(t).w] =
                                  ExceptionString(Top(t).exc)]
          /\ Return(t, 2, NoVal)
     ELSE /\ Return(t, 0, NoVal)
          /\ UNCHANGED last_exception
  /\ UNCHANGED <<slots, term, cache, counts, provider, heap, ops, calls, crashed>>

----------------------------------------------------------------------------
(* worker_send_sync *)

worker_send_sync(t, w, msg) ==
  /\ CanCall(t, w)
  /\ Enter(t, w, [Frame("send_sync", w) EXCEPT !.arg = msg])
  /\ UNCHANGED <<slots, last_exception, term, cache, counts, provider, heap, ret,
                 crashed>>

\* a worker_send_sync that stores its no-receiver sentinel in last_exception
worker_send_sync_call_diag(t) ==
  /\ At(t, "send_sync", "run")
  /\ IF recv_sync_handler[Top(t).w] = NoFunc
     THEN /\ last_exception' = [last_exception EXCEPT ![Top(t).w] =
                                  NoRecvSyncStr]
          /\ Return(t, 0, CopyString(NoRecvSyncStr))
     ELSE /\ CallScript(t, recv_sync_handler[Top(t).w], Top(t).arg)
          /\ UNCHANGED <<lockOwner, last_exception, ret>>
  /\ UNCHANGED <<slots, term, cache, counts, provider, heap, ops, calls,
                 crashed>>

\* up to recv_sync_handler->Call(context->Global(), 1, args)
worker_send_sync_call(t) ==
  /\ At(t, "send_sync", "run")
  /\ IF recv_sync_handler[Top(t).w] = NoFunc
     THEN Return(t, 0, CopyString(NoRecvSyncStr))
     ELSE /\ CallScript(t, recv_sync_handler[Top(t).w], Top(t).arg)
          /\ UNCHANGED <<lockOwner, ret>>
  /\ UNCHANGED <<slots, last_exception, term, cache, counts, provider, heap, ops, calls,
                 crashed>>

\* after the call: response_value->IsString().  The handle is empty when the
\* receiver threw or was terminated, and response_value-> then dereferences
\* a null pointer: the process aborts, or the read yields some value that
\* is taken not to be a string.
worker_send_sync_done(t, abort) ==
  /\ At(t, "send_sync", "returned")
  /\ IF Top(t).res = EmptyHandle
     THEN IF abort
          THEN /\ crashed' = TRUE
               /\ UNCHANGED <<stack, lockOwner, ret>>
          ELSE /\ Return(t, 0, CopyString(NonStringStr))
               /\ UNCHANGED crashed
     ELSE /\ ~abort
          /\ Return(t, 0, CopyString(IF Top(t).res = NonString
                                      THEN NonStringStr ELSE Top(t).res))
          /\ UNCHANGED crashed
  /\ UNCHANGED <<slots, last_exception, term, cache, counts, provider, heap, ops, calls>>

----------------------------------------------------------------------------
(* LoadModule: the recursive load of a module and its imports *)

Bump(c, w, url) == [c EXCEPT ![w][url] = @ + 1]

\* an insert that adds nothing
MapNoInsert(m, key, value) == m

\* an insert that drops the entries the map held
MapInsertOnly(m, key, value) ==
  [x \in {key} |-> value]

\* std::unordered_map::insert: keeps the entry of a key already present
MapInsert(m, key, value) ==
  IF key \in DOMAIN m THEN m
  ELSE [x \in DOMAIN m \cup {key} |-> IF x = key THEN value ELSE m[x]]

\* the handle of a newly compiled module: an identity no earlier one has
NewHandle(w) == Cardinality(DOMAIN module_to_url_map[w]) + 1

\* LoadModule returns to its caller, leaving h in the caller's MaybeLocal
\* (0: left empty).
LoadModuleReturn(t, h) ==
  stack' = [stack EXCEPT ![t] =
    SetTop(Pop(@), [@[Len(@) - 1] EXCEPT !.pc = "loaded", !.sub = h])]

\* the innermost frame of the stack s that declares a TryCatch
CatchFrame(s) ==
  CHOOSE j \in 1..Len(s) :
    /\ HasTryCatch(s[j].k)
    /\ \A l \in (j + 1)..Len(s) : ~HasTryCatch(s[l].k)

\* getModuleSource and ScriptCompiler::CompileModule, then the two inserts
LoadModule_compile(t) ==
  /\ At(t, "LoadModule", "run")
  /\ LET w == Top(t).w
         url == Top(t).url
     IN /\ fetched' = Bump(fetched, w, url)
        /\ IF ~compiles[url]
           THEN /\ stack' = [stack EXCEPT ![t] =
                     LET c == CatchFrame(@)
                         s == [@ EXCEPT ![c].exc = "SyntaxError in " \o url]
                     IN SetTop(Pop(s), [s[Len(s) - 1] EXCEPT
                                           !.pc = "loaded", !.sub = 0])]
                /\ UNCHANGED <<cache, compiled>>
           ELSE /\ compiled' = Bump(compiled, w, url)
                /\ url_to_module_map' = [url_to_module_map EXCEPT ![w] =
                     MapInsert(@, url, NewHandle(w))]
                /\ module_to_url_map' = [module_to_url_map EXCEPT ![w] =
                     MapInsert(@, NewHandle(w), url)]
                /\ stack' = [stack EXCEPT ![t] = SetTop(@, [Top(t) EXCEPT
                     !.pc = "imports", !.h = NewHandle(w), !.i = 0])]
  /\ UNCHANGED <<lockOwner, slots, last_exception, term, evaluated, provider, heap,
                 ret, ops, calls, crashed>>

\* the LoadModule activations on the stack s
Depth(s) == Cardinality({j \in 1..Len(s) : s[j].k = "LoadModule"})

\* the loop over module->GetModuleRequest(i): the recursive call, or the
\* end of the loop, where mod = module
LoadModule_imports(t) ==
  /\ At(t, "LoadModule", "imports")
  /\ IF Top(t).i < Len(imports[Top(t).url])
     THEN IF Depth(stack[t]) < MaxDepth
          THEN /\ stack' = [stack EXCEPT ![t] =
                    Append(SetTop(@, [Top(t) EXCEPT !.pc = "called"]),
                           [Frame("LoadModule", Top(t).w) EXCEPT
                              !.url = imports[Top(t).url][Top(t).i + 1]])]
               /\ UNCHANGED crashed
          ELSE /\ crashed' = TRUE
               /\ UNCHANGED stack
     ELSE /\ LoadModuleReturn(t, Top(t).h)
          /\ UNCHANGED crashed
  /\ UNCHANGED <<lockOwner, slots, last_exception, term, cache, counts,
                 provider, heap, ret, ops, calls>>

\* a loop that goes on to the next import after one that failed to load
LoadModule_submodule_unchecked(t) ==
  /\ At(t, "LoadModule", "loaded")
  /\ stack' = [stack EXCEPT ![t] = SetTop(@, [Top(t) EXCEPT
                   !.pc = "imports", !.i = @ + 1])]
  /\ UNCHANGED <<lockOwner, slots, last_exception, term, cache, counts,
                 provider, heap, ret, ops, calls, crashed>>

\* after the recursive call: if (submodule.IsEmpty()) return;
LoadModule_submodule(t) ==
  /\ At(t, "LoadModule", "loaded")
  /\ IF Top(t).sub = 0
     THEN LoadModuleReturn(t, 0)
     ELSE stack' = [stack EXCEPT ![t] = SetTop(@, [Top(t) EXCEPT
                      !.pc = "imports", !.i = @ + 1])]
  /\ UNCHANGED <<lockOwner, slots, last_exception, term, cache, counts,
                 provider, heap, ret, ops, calls, crashed>>

----------------------------------------------------------------------------
(* worker_load_module *)

Range(s) == {s[j] : j \in 1..Len(s)}

\* the identifiers ResolveModuleCallback is asked for while the module
\* compiled from url, and the cached modules it reaches, are instantiated
RECURSIVE Requested(_, _, _)
Requested(w, urls, n) ==
  IF n = 0 THEN {}
  ELSE LET direct == UNION {Range(imports[u]) : u \in urls}
       IN direct \cup
          Requested(w, direct \cap DOMAIN url_to_module_map[w], n - 1)

\* ResolveModuleCallback dereferences find()'s result without comparing it
\* with end(): a miss is undefined behaviour.
ResolverMisses(w, url) ==
  Requested(w, {url}, Cardinality(Modules)) \ DOMAIN url_to_module_map[w]

worker_load_module(t, w, url) ==
  /\ CanCall(t, w)
  /\ Enter(t, w, [Frame("load_module", w) EXCEPT !.url = url])
  /\ UNCHANGED <<slots, last_exception, term, cache, counts, provider, heap, ret,
                 crashed>>

\* LoadModule(w, context, url, mod)
worker_load_module_call(t) ==
  /\ At(t, "load_module", "run")
  /\ stack' = [stack EXCEPT ![t] =
       Append(SetTop(@, [Top(t) EXCEPT !.pc = "called"]),
              [Frame("LoadModule", Top(t).w) EXCEPT !.url = Top(t).url])]
  /\ UNCHANGED <<lockOwner, slots, last_exception, term, cache, counts,
                 provider, heap, ret, ops, calls, crashed>>

\* mod.ToLocal, then InstantiateModule (links: whether the engine links the
\* graph), then module->Evaluate(context)
worker_load_module_instantiate(t, links) ==
  /\ At(t, "load_module", "loaded")
  /\ LET w == Top(t).w
         url == Top(t).url
     IN IF Top(t).sub = 0
        THEN /\ links
             /\ last_exception' = [last_exception EXCEPT ![w] =
                                     ExceptionString(Top(t).exc)]
             /\ Return(t, 1, NoVal)
             /\ UNCHANGED <<evaluated, crashed>>
        ELSE IF ResolverMisses(w, url) # {}
        THEN /\ links
             /\ crashed' = TRUE
             /\ UNCHANGED <<stack, lockOwner, last_exception, ret, evaluated>>
        ELSE IF ~links
        THEN /\ last_exception' = [last_exception EXCEPT ![w] =
                                     ExceptionString("LinkError in " \o url)]
             /\ ReturnFrom(t, [Top(t) EXCEPT !.exc = "LinkError in " \o url],
                           2, NoVal)
             /\ UNCHANGED <<evaluated, crashed>>
        ELSE /\ evaluated' = Bump(evaluated, w, url)
             /\ CallScript(t, "module " \o url, "")
             /\ UNCHANGED <<lockOwner, last_exception, ret, crashed>>
  /\ UNCHANGED <<slots, term, cache, fetched, compiled, provider, heap, ops, calls>>

\* a worker_load_module that does not look at the result of Evaluate
worker_load_module_done_unchecked(t) ==
  /\ At(t, "load_module", "returned")
  /\ Return(t, 0, NoVal)
  /\ UNCHANGED <<slots, last_exception, term, cache, counts, provider, heap, ops,
                 calls, crashed>>

\* after Evaluate: maybe_result.ToLocal(&result)
worker_load_module_done(t) ==
  /\ At(t, "load_module", "returned")
  /\ IF Top(t).res = EmptyHandle
     THEN /\ last_exception' = [last_exception EXCEPT ![Top(t).w] =
                                  ExceptionString(Top(t).exc)]
          /\ Return(t, 3, NoVal)
     ELSE /\ Return(t, 0, NoVal)
          /\ UNCHANGED last_exception
  /\ UNCHANGED <<slots, term, cache, counts, provider, heap, ops, calls, crashed>>

----------------------------------------------------------------------------
(* Initial states and specifications *)

EmptyMap == [x \in {} |-> 0]

\* import lists: every list of distinct identifiers of at most two entries
ImportLists ==
  {<<>>} \cup {<<a>> : a \in Modules}
         \cup {<<x[1], x[2]>> : x \in {y \in Modules \X Modules : y[1] # y[2]}}

\* the state worker_init leaves, for a source provider that knows the
\* module identifiers U
InitFor(U) ==
  /\ stack = [t \in Threads |-> <<>>]
  /\ lockOwner = [w \in Workers |-> NoThread]
  /\ recv = [w \in Workers |-> NoFunc]
  /\ recv_sync_handler = [w \in Workers |-> NoFunc]
  /\ last_exception = [w \in Workers |-> ""]
  /\ term = [w \in Workers |-> "none"]
  /\ url_to_module_map = [w \in Workers |-> EmptyMap]
  /\ module_to_url_map = [w \in Workers |-> EmptyMap]
  /\ fetched = [w \in Workers |-> [u \in U |-> 0]]
  /\ compiled = [w \in Workers |-> [u \in U |-> 0]]
  /\ evaluated = [w \in Workers |-> [u \in U |-> 0]]
  /\ ret = NoRet
  /\ crashed = FALSE
  /\ heap = [w \in Workers |-> HeapObjects]

InitWorkers == InitFor(Modules)

\* Host threads driving two workers: every entry point, one receiver
\* function, one message, a fixed module graph A -> B.
Init ==
  /\ InitWorkers
  /\ ops = MaxOps
  /\ calls = MaxCalls
  /\ imports = [u \in Modules |-> IF u = "A" THEN <<"B">> ELSE <<>>]
  /\ compiles \in {[u \in Modules |-> TRUE], [u \in Modules |-> u # "B"]}

Script(t, F, M, V) ==
  \/ \E fn \in F : Recv(t, fn)
  \/ \E fn \in F : RecvSync(t, fn)
  \/ \E msg \in M : Send(t, msg)
  \/ \E msg \in M : SendSync(t, msg)
  \/ CbReturn(t)
  \/ \E v \in V : ScriptReturn(t, v)
  \/ ScriptThrow(t)

Messaging(t, W, M) ==
  \/ \E w \in W, src \in {"good", "bad"} : worker_load_script(t, w, src)
  \/ worker_load_script_compile(t)
  \/ worker_load_script_done(t)
  \/ \E w \in W, msg \in M : worker_send(t, w, msg)
  \/ worker_send_call(t)
  \/ worker_send_done(t)
  \/ \E w \in W, msg \in M : worker_send_sync(t, w, msg)
  \/ worker_send_sync_call(t)
  \/ \E abort \in BOOLEAN : worker_send_sync_done(t, abort)

Loading(t, W, U) ==
  \/ \E w \in W, url \in U : worker_load_module(t, w, url)
  \/ worker_load_module_call(t)
  \/ LoadModule_compile(t)
  \/ LoadModule_imports(t)
  \/ LoadModule_submodule(t)
  \/ \E links \in BOOLEAN : worker_load_module_instantiate(t, links)
  \/ worker_load_module_done(t)

Next ==
  \E t \in Threads :
    \/ Messaging(t, Workers, {"m1"})
    \/ Loading(t, Workers, {"A"})
    \/ Recv(t, "f1")
    \/ RecvSync(t, "f1")
    \/ ScriptReturn(t, "r1")
    \/ ScriptThrow(t)
    \/ LockerWake(t)

Spec == Init /\ [][Next]_vars

\* Two host threads on one worker, and terminateExecution.
NextTerm ==
  \E t \in Threads :
    \/ Messaging(t, {"w1"}, {"m1"})
    \/ Loading(t, {"w1"}, {"A"})
    \/ Recv(t, "f1")
    \/ RecvSync(t, "f1")
    \/ ScriptReturn(t, "r1")
    \/ ScriptThrow(t)
    \/ ScriptTerminate(t)
    \/ LockerWake(t)
    \/ worker_terminate_execution(t, "w1")

SpecTerm == Init /\ [][NextTerm]_vars

\* The engine honours a termination request at the next check point of the
\* running script, and a thread that got its result back runs on to its
\* return statement.
FairTerm ==
  \A t \in Threads :
    /\ WF_vars(ScriptTerminate(t))
    /\ WF_vars(worker_load_script_done(t))
    /\ WF_vars(worker_load_module_done(t))
    /\ WF_vars(worker_send_done(t))

SpecTermFair == Init /\ [][NextTerm]_vars /\ FairTerm

\* Two host threads on one worker whose scripts call $send and $sendSync,
\* and whose host callbacks call back into the worker.
NextReentry ==
  \E t \in Threads :
    \/ Messaging(t, {"w1"}, {"m1"})
    \/ Loading(t, {"w1"}, {"A"})
    \/ Script(t, {"f1"}, {"m1"}, {"r1"})
    \/ LockerWake(t)

SpecReentry == Init /\ [][NextReentry]_vars

\* One thread and one worker, with every receiver, message and value.
NextMsg ==
  \/ Messaging("t1", {"w1"}, Msgs)
  \/ \E fn \in Funcs : Recv("t1", fn)
  \/ \E fn \in Funcs : RecvSync("t1", fn)
  \/ \E v \in Strs \cup {NonString} : ScriptReturn("t1", v)
  \/ ScriptThrow("t1")

SpecMsg == Init /\ [][NextMsg]_vars

\* One host thread and the whole life of two workers: every entry point,
\* lastException and dispose.
NextLife ==
  \/ Messaging("t1", Workers, {"m1"})
  \/ Loading("t1", Workers, {"A"})
  \/ Recv("t1", "f1")
  \/ RecvSync("t1", "f1")
  \/ ScriptReturn("t1", "r1")
  \/ ScriptThrow("t1")
  \/ \E w \in Workers : worker_last_exception("t1", w)
  \/ \E w \in Workers : worker_dispose("t1", w)

SpecLife == Init /\ [][NextLife]_vars

\* One thread loading modules into one worker, for every import graph.
InitLoad ==
  /\ InitWorkers
  /\ ops = MaxOps
  /\ calls = 0
  /\ imports \in [Modules -> ImportLists]
  /\ compiles \in [Modules -> BOOLEAN]

NextLoad ==
  \/ Loading("t1", {"w1"}, Modules)
  \/ \E v \in {"r1"} : ScriptReturn("t1", v)
  \/ ScriptThrow("t1")

SpecLoad == InitLoad /\ [][NextLoad]_vars

\* One thread loading modules into one worker, with a fourth module and
\* every graph in which a module declares at most one import, no chain of
\* imports goes through four different modules, and at most one module has
\* a text that does not compile.
Modules4 == Modules \cup {"D"}

ShortLists == {<<>>} \cup {<<a>> : a \in Modules4}

LongChain(g) ==
  \E a \in Modules4 :
    /\ g[a] # <<>> /\ g[a][1] # a
    /\ g[g[a][1]] # <<>> /\ g[g[a][1]][1] \notin {a, g[a][1]}
    /\ g[g[g[a][1]][1]] # <<>>
    /\ g[g[g[a][1]][1]][1] \notin {a, g[a][1], g[g[a][1]][1]}

InitResolve ==
  /\ InitFor(Modules4)
  /\ ops = MaxOps
  /\ calls = 0
  /\ imports \in {g \in [Modules4 -> ShortLists] : ~LongChain(g)}
  /\ compiles \in {c \in [Modules4 -> BOOLEAN] :
                    Cardinality({u \in Modules4 : ~c[u]}) <= 1}

NextResolve ==
  \/ Loading("t1", {"w1"}, Modules4)
  \/ ScriptReturn("t1", "r1")
  \/ ScriptThrow("t1")

SpecResolve == InitResolve /\ [][NextResolve]_vars

----------------------------------------------------------------------------
(* Module loading: claims checked under SpecLoad *)

\* C1: getModuleSource is invoked at most once per module identifier and
\* each identifier is compiled at most once, for any sequence of loadModule
\* calls and any import graph.
C1_FetchedAndCompiledOnce ==
  \A w \in Workers, u \in Modules :
    fetched[w][u] <= 1 /\ compiled[w][u] <= 1

\* C2: a load whose import graph has a cycle terminates: the recursive load
\* never re-enters a module it is already loading (the re-entrant request
\* finds the module cached and returns), so the stack is never exhausted.
C2_CycleTerminates ==
  \A t \in Threads :
    /\ \A j, l \in 1..Len(stack[t]) :
         (j < l /\ stack[t][j].k = "LoadModule" /\ stack[t][l].k = "LoadModule")
           => stack[t][j].url # stack[t][l].url
    /\ ~(At(t, "LoadModule", "imports") /\ crashed)

\* C3: the body of a module is evaluated at most once per worker, however
\* many times loadModule is called with its identifier: a call whose root is
\* already cached returns without evaluating anything.
C3_EvaluatedOnce ==
  \A w \in Workers, u \in Modules : evaluated[w][u] <= 1

CompileErrors == {"SyntaxError in " \o u : u \in Modules}
LinkErrors == {"LinkError in " \o u : u \in Modules}
EvaluateErrors == {"Error in module " \o u : u \in Modules} \cup {"Termination"}

\* C8: loadModule returns 1 exactly when a module of the graph failed to
\* compile, 2 exactly when instantiation failed, 3 exactly when evaluating
\* the root threw and 0 exactly when nothing failed, and every non-zero
\* return has set last_exception to the diagnostic of that failure.
C8_ReturnCodes ==
  ret.op = "load_module" =>
    /\ ret.code \in 0..3
    /\ ret.code = 1 <=> ret.exc \in CompileErrors
    /\ ret.code = 2 <=> ret.exc \in LinkErrors
    /\ ret.code = 3 <=> ret.exc \in EvaluateErrors
    /\ ret.code = 0 <=> ret.exc = ""
    /\ ret.code = 3 <=> ret.res = EmptyHandle
    /\ ret.code # 0 => last_exception[ret.w] = ExceptionString(ret.exc)

\* C8 witness: a load returned 1 because an import of the root, not the
\* root, failed to compile.
C8_ImportFailed ==
  /\ ret.op = "load_module"
  /\ ret.code = 1
  /\ ret.exc # "SyntaxError in " \o ret.url
  /\ last_exception[ret.w] = ExceptionString(ret.exc)

----------------------------------------------------------------------------
(* The execution lock: claims checked under SpecReentry, Spec and SpecTerm *)

\* C4: while a host callback reached from script code is running, the
\* calling thread does not hold the worker's execution lock.
C4_CallbackRunsUnlocked ==
  \A t \in Threads :
    (stack[t] # <<>> /\ Top(t).k = "cb") => lockOwner[Top(t).w] # t

\* C5: a host callback that re-enters the same worker on its own thread
\* never waits for a lock that thread already holds.
C5_NoSelfDeadlock ==
  \A t \in Threads :
    (stack[t] # <<>> /\ Top(t).pc = "blocked") => lockOwner[Top(t).w] # t

\* C5 witness: an entry point called from inside a host callback ran the
\* registered receiver and returned to the callback body.
C5_ReentrantCallReturned ==
  /\ ret.depth > 1
  /\ ret.n = 1
  /\ stack[ret.t] # <<>>
  /\ Top(ret.t).k = "cb"
  /\ lockOwner[ret.w] = ret.t

\* thread t is inside the engine of worker w: a frame of its stack is past
\* the Locker of an entry point of w
InEngine(t, w) ==
  \E j \in 1..Len(stack[t]) : stack[t][j].w = w /\ stack[t][j].pc # "blocked"

C6_MutualExclusion ==
  \A w \in Workers : \A t \in Threads :
    InEngine(t, w) =>
      /\ lockOwner[w] = t
      /\ \A t2 \in Threads \ {t} : ~InEngine(t2, w)

C6_SlotsWrittenUnderLock ==
  \A w \in Workers :
    (recv'[w] # recv[w] \/ recv_sync_handler'[w] # recv_sync_handler[w]) =>
      \E t \in Threads :
        /\ lockOwner[w] = t
        /\ stack[t] # <<>>
        /\ Top(t).k = "script"
        /\ Top(t).w = w

\* C6: at most one host thread at a time is inside a worker's engine, the
\* thread inside holds that worker's execution lock, and $recv and
\* $recvSync write the receiver slots only under that lock.
C6_Serialized ==
  []C6_MutualExclusion /\ [][C6_SlotsWrittenUnderLock]_vars

\* C6 witness: one thread runs script code of a worker while the other
\* thread's call on the same worker waits in its Locker.
C6_SecondCallWaits ==
  \E t \in Threads, t2 \in Threads :
    /\ t # t2
    /\ stack[t] # <<>> /\ Top(t).k = "script"
    /\ stack[t2] # <<>> /\ Top(t2).pc = "blocked"
    /\ Top(t2).w = Top(t).w

\* Both workers are busy at once: calls on different workers do not
\* exclude each other.
C6_BothWorkersBusy ==
  /\ InEngine("t1", "w1") /\ stack["t1"][Len(stack["t1"])].k = "script"
  /\ InEngine("t2", "w2") /\ stack["t2"][Len(stack["t2"])].k = "script"

\* C7: terminateExecution never waits for the execution lock: while another
\* thread holds it, an idle thread's terminateExecution can run.
C7_TerminateNeverWaits ==
  \A t \in Threads, t2 \in Threads :
    (t # t2 /\ lockOwner["w1"] = t /\ stack[t2] = <<>> /\ ~crashed)
      => ENABLED worker_terminate_execution(t2, "w1")

\* C7 witness: the termination request was raised while the first call of
\* the behaviour, whose script has registered a receiver, holds the lock.
C7_RequestedWhileLocked ==
  /\ ops = MaxOps - 1
  /\ recv["w1"] = "f1"
  /\ term["w1"] = "requested"
  /\ \E t \in Threads :
       lockOwner["w1"] = t /\ stack[t] # <<>> /\ Top(t).k = "script"

----------------------------------------------------------------------------
(* Messaging: claims checked under SpecMsg *)

\* thread t returns from the entry point k in this step
Returns(t, k) ==
  /\ stack[t] # <<>>
  /\ Top(t).k = k
  /\ stack'[t] = Pop(stack[t])

C9_ArgPassed ==
  \A t \in Threads : \A j \in 1..Len(stack[t]) :
    (stack[t][j].k = "send" /\ stack[t][j].pc = "called") =>
      /\ j < Len(stack[t])
      /\ stack[t][j + 1].k = "script"
      /\ stack[t][j + 1].fn \in Funcs
      /\ stack[t][j + 1].arg = stack[t][j].arg

C9_SendReturn ==
  \A t \in Threads :
    Returns(t, "send") =>
      LET f == Top(t)
          none == recv[f.w] = NoFunc
      IN /\ ret'.code = IF none THEN 1 ELSE IF f.res = EmptyHandle THEN 2 ELSE 0
         /\ f.i = IF none THEN 0 ELSE 1
         /\ f.pc = IF none THEN "run" ELSE "returned"
         /\ ret'.code = 1 => last_exception'[f.w] = NoRecvDiag
         /\ ret'.code = 2 => /\ f.exc # ""
                             /\ last_exception'[f.w] = ExceptionString(f.exc)
         /\ ret'.code = 0 => last_exception'[f.w] = last_exception[f.w]

\* C9: send returns 1 with the no-receiver diagnostic and runs no script
\* when no receiver is registered; otherwise it calls the receiver once
\* with msg, returns only after the receiver has returned or thrown, and
\* returns 2 with the diagnostic if it threw and 0 otherwise.
C9_Send ==
  []C9_ArgPassed /\ [][C9_SendReturn]_vars

\* C9 witness: send called a registered receiver, which threw.
C9_ReceiverThrew ==
  /\ ret.op = "send"
  /\ ret.code = 2
  /\ ret.n = 1
  /\ last_exception[ret.w] = ExceptionString(ret.exc)

\* C10: sendSync always returns a string to the host: the no-receiver
\* sentinel when no sync receiver is registered, the non-string sentinel
\* when the receiver returned a value that is not a string, and exactly the
\* receiver's returned string otherwise.
C10_SendSyncReturnsString ==
  /\ \A t \in Threads :
       (stack[t] # <<>> /\ Top(t).k = "send_sync") => ~crashed
  /\ ret.op = "send_sync" =>
       ret.val.str = IF ret.n = 0 THEN NoRecvSyncStr
                     ELSE IF ret.res = NonString THEN NonStringStr
                     ELSE ret.res

----------------------------------------------------------------------------
(* Receiver exceptions: checked under SpecMsg *)

\* C11: when the receiver called by send or by sendSync throws, the
\* exception is caught at the boundary, the host call returns, and
\* last_exception holds the diagnostic of that exception.
C11_ReceiverExceptionCaught ==
  /\ \A t \in Threads :
       (stack[t] # <<>> /\ Top(t).k \in {"send", "send_sync"}
          /\ Top(t).res = EmptyHandle) => ~crashed
  /\ (ret.op \in {"send", "send_sync"} /\ ret.res = EmptyHandle) =>
       /\ ret.exc # ""
       /\ last_exception[ret.w] = ExceptionString(ret.exc)

----------------------------------------------------------------------------
(* Termination: checked under SpecTermFair *)

\* thread t runs script code for a loadScript, loadModule or send call while
\* a termination request is pending on the worker
Interrupted(t) ==
  /\ At(t, "script", "run")
  /\ term[Top(t).w] = "requested"
  /\ Len(stack[t]) > 1
  /\ stack[t][Len(stack[t]) - 1].k \in {"load_script", "load_module", "send"}

\* C12: a loadScript, loadModule or send call whose script is running when
\* terminateExecution is requested eventually returns, and it returns a
\* non-zero code.
C12_TerminatedCallReturns ==
  \A t \in Threads :
    Interrupted(t) ~> (stack[t] = <<>> /\ ret.t = t /\ ret.code # 0)

\* C12 witness: a loadScript call whose script was terminated returned 2
\* with the diagnostic of the termination.
C12_TerminatedScriptReturned ==
  /\ ret.op = "load_script"
  /\ ret.code = 2
  /\ ret.exc = "Termination"
  /\ last_exception[ret.w] = ExceptionString("Termination")

----------------------------------------------------------------------------
(* The diagnostic: checked under Spec *)

\* the entry points that return a code
CodeKinds == {"load_script", "load_module", "send"}

\* the diagnostic a failing call leaves in last_exception
Diagnostic(op, code, exc) ==
  IF op = "send" /\ code = 1 THEN NoRecvDiag
  ELSE IF op = "load_script" /\ code = 1
  THEN ExceptionString("SyntaxError in script")
  ELSE ExceptionString(exc)

C13_LastExceptionStep ==
  /\ \A w \in Workers :
       last_exception'[w] # last_exception[w] =>
         \E t \in Threads, k \in CodeKinds :
           Returns(t, k) /\ Top(t).w = w /\ ret'.t = t /\ ret'.code # 0
  /\ \A t \in Threads, k \in CodeKinds :
       Returns(t, k) =>
         IF ret'.code # 0
         THEN last_exception'[Top(t).w] = Diagnostic(k, ret'.code, ret'.exc)
         ELSE last_exception' = last_exception
  /\ \A t \in Threads :
       Returns(t, "send_sync") => last_exception' = last_exception

\* C13: last_exception of a worker changes only when a loadScript,
\* loadModule or send call on that worker returns non-zero, and every such
\* return overwrites it with the new diagnostic; a return of 0 and every
\* return of sendSync leave it as it was.
C13_LastException ==
  [][C13_LastExceptionStep]_vars

\* C13 witness: sendSync returned its no-receiver sentinel on a worker whose
\* last_exception still holds the diagnostic of an earlier failed send.
C13_SentinelKeepsDiagnostic ==
  /\ ret.op = "send_sync"
  /\ ret.val.str = NoRecvSyncStr
  /\ last_exception[ret.w] = NoRecvDiag
  /\ \A w \in Workers \ {ret.w} : last_exception[w] = ""

----------------------------------------------------------------------------
(* The module cache: checked under SpecLoad *)

\* the map m2 holds every entry of the map m1
Extends(m2, m1) ==
  /\ DOMAIN m1 \subseteq DOMAIN m2
  /\ \A x \in DOMAIN m1 : m2[x] = m1[x]

C14_CacheContents ==
  \A w \in Workers, u \in Modules :
    /\ ~compiles[u] => u \notin DOMAIN url_to_module_map[w]
    /\ compiled[w][u] > 0 => u \in DOMAIN url_to_module_map[w]

C14_CacheGrows ==
  \A w \in Workers :
    /\ Extends(url_to_module_map'[w], url_to_module_map[w])
    /\ Extends(module_to_url_map'[w], module_to_url_map[w])

\* C14: a module that fails to compile is never inserted into the cache,
\* every module that compiled is in the cache and stays there when a later
\* module of the graph fails, and no step removes or changes a cache entry.
C14_CacheKeptOnFailure ==
  []C14_CacheContents /\ [][C14_CacheGrows]_vars

\* C14 witness: a load returned 1 because the second import of the root
\* failed to compile; the root and its first import are in the cache.
C14_PartialLoadKept ==
  /\ ret.op = "load_module"
  /\ ret.code = 1
  /\ Len(imports[ret.url]) = 2
  /\ ~compiles[imports[ret.url][2]]
  /\ imports[ret.url][2] \notin DOMAIN url_to_module_map[ret.w]
  /\ {ret.url, imports[ret.url][1]} \subseteq DOMAIN url_to_module_map[ret.w]

----------------------------------------------------------------------------
(* The receiver slots: checked under SpecMsg *)

\* the step is a call into script code made by thread t
CallsScript(t) ==
  /\ Len(stack'[t]) = Len(stack[t]) + 1
  /\ stack'[t][Len(stack'[t])].k = "script"

\* whatever the slots hold, $recv(fn) and $recvSync(fn) leave fn in their
\* slot and the other slot as it was
C15_Registers ==
  \A t \in Threads :
    InScript(t) =>
      \A fn \in Funcs :
        /\ ENABLED (/\ Recv(t, fn)
                    /\ recv'[Top(t).w] = fn
                    /\ recv_sync_handler' = recv_sync_handler)
        /\ ENABLED (/\ RecvSync(t, fn)
                    /\ recv_sync_handler'[Top(t).w] = fn
                    /\ recv' = recv)

C15_SlotsStep ==
  /\ \A w \in Workers :
       recv'[w] # recv[w] => recv_sync_handler' = recv_sync_handler
  /\ \A t \in Threads :
       (CallsScript(t) /\ Top(t).k = "send") =>
         stack'[t][Len(stack'[t])].fn = recv[Top(t).w]
  /\ \A t \in Threads :
       (CallsScript(t) /\ Top(t).k = "send_sync") =>
         stack'[t][Len(stack'[t])].fn = recv_sync_handler[Top(t).w]

\* C15: each worker has one slot per channel and the last registration
\* wins: $recv(f) leaves f in the async slot and $recvSync(g) leaves g in
\* the sync slot whatever they held, neither changes the other slot, and
\* send and sendSync call the function their slot holds.
C15_LastRegistrationWins ==
  []C15_Registers /\ [][C15_SlotsStep]_vars

\* C15 witness: while send runs the receiver f2, registered after f1, that
\* receiver has registered f1 again in its place; the sync slot holds f2.
C15_ReceiverReplaced ==
  \E t \in Threads :
    /\ At(t, "script", "run")
    /\ Len(stack[t]) > 1
    /\ stack[t][Len(stack[t]) - 1].k = "send"
    /\ Top(t).fn = "f2"
    /\ recv[Top(t).w] = "f1"
    /\ recv_sync_handler[Top(t).w] = "f2"

----------------------------------------------------------------------------
(* Dispose: checked under SpecLife *)

\* C16: after dispose has returned, nothing that init or the loads
\* allocated for the worker is still allocated: the isolate with its
\* handles, the worker, and the Module Cache object are all released.
C16_DisposeReleasesAll ==
  \A w \in Workers : ~Live(w) => heap[w] = {}

----------------------------------------------------------------------------
(* The order of the recursive load: checked under SpecLoad *)

\* the load of url and of everything it imports succeeds: every module of
\* its graph compiles and the graph has no cycle through url (n bounds the
\* length of an import chain)
RECURSIVE LoadsOK(_, _)
LoadsOK(url, n) ==
  /\ n > 0
  /\ compiles[url]
  /\ \A j \in 1..Len(imports[url]) : LoadsOK(imports[url][j], n - 1)

\* a step that fetches the source of an import: it is the next import, in
\* declaration order, of a module that is compiled and in the cache, and
\* every import declared before it has been fetched and has loaded
C17_FetchStep ==
  \A t \in Threads :
    (stack[t] # <<>> /\ Top(t).k = "LoadModule" /\ fetched' # fetched
       /\ stack[t][Len(stack[t]) - 1].k = "LoadModule") =>
      LET w == Top(t).w
          u == Top(t).url
          p == stack[t][Len(stack[t]) - 1]
      IN /\ compiled[w][p.url] > 0
         /\ p.url \in DOMAIN url_to_module_map[w]
         /\ \E n \in 1..Len(imports[p.url]) :
              /\ u = imports[p.url][n]
              /\ \A m \in 1..(n - 1) :
                   /\ fetched[w][imports[p.url][m]] > 0
                   /\ LoadsOK(imports[p.url][m], Cardinality(Modules))

\* a step that inserts into the cache: the module has just compiled
C17_InsertStep ==
  \A w \in Workers :
    url_to_module_map'[w] # url_to_module_map[w] =>
      \E t \in Threads :
        /\ At(t, "LoadModule", "run")
        /\ compiles[Top(t).url]
        /\ compiled'[w][Top(t).url] = compiled[w][Top(t).url] + 1
        /\ DOMAIN url_to_module_map'[w] =
             DOMAIN url_to_module_map[w] \cup {Top(t).url}

\* C17: a module's cache entry is inserted after it compiled and before the
\* source of any of its imports is fetched; imports are visited depth-first
\* in declaration order, and after the first import that fails to load no
\* later import of the module is fetched or compiled.
C17_LoadOrder ==
  [][C17_FetchStep /\ C17_InsertStep]_vars

\* C17 witness: a load returned 1 because the first of the two imports of
\* the root failed to compile; the second import was never fetched.
C17_SecondImportSkipped ==
  /\ ret.op = "load_module"
  /\ ret.code = 1
  /\ Len(imports[ret.url]) = 2
  /\ compiled[ret.w][ret.url] = 1
  /\ fetched[ret.w][imports[ret.url][1]] = 1
  /\ ~compiles[imports[ret.url][1]]
  /\ fetched[ret.w][imports[ret.url][2]] = 0

----------------------------------------------------------------------------
(* The two maps of the cache: checked under SpecLoad *)

\* C18: the two maps of the Module Cache are exact inverses of each other:
\* every entry handle -> identifier of the inverse map has its entry
\* identifier -> handle in the forward map, and conversely, so both maps
\* have the same number of entries.
C18_MapsInverse ==
  \A w \in Workers :
    /\ \A h \in DOMAIN module_to_url_map[w] :
         /\ module_to_url_map[w][h] \in DOMAIN url_to_module_map[w]
         /\ url_to_module_map[w][module_to_url_map[w][h]] = h
    /\ \A u \in DOMAIN url_to_module_map[w] :
         /\ url_to_module_map[w][u] \in DOMAIN module_to_url_map[w]
         /\ module_to_url_map[w][url_to_module_map[w][u]] = u
    /\ Cardinality(DOMAIN url_to_module_map[w]) =
         Cardinality(DOMAIN module_to_url_map[w])

----------------------------------------------------------------------------
(* The import resolver: checked under SpecLoad and SpecResolve *)

\* thread t is about to instantiate the root it has loaded
Instantiating(t) ==
  /\ At(t, "load_module", "loaded")
  /\ Top(t).sub # 0

\* C19: whenever loadModule reaches InstantiateModule, every identifier the
\* resolver is asked for, for the root and for the modules reached through
\* the cached handles, is a key of url_to_module_map.
C19_ResolverNeverMisses ==
  \A t \in Threads :
    Instantiating(t) => ResolverMisses(Top(t).w, Top(t).url) = {}

\* C19 witness: a root with imports is about to be instantiated after an
\* earlier load on the worker failed part-way and left in the cache a
\* module one of whose imports does not compile.
C19_InstantiateAfterFailure ==
  \E t \in Threads :
    /\ Instantiating(t)
    /\ imports[Top(t).url] # <<>>
    /\ ret.op = "load_module"
    /\ ret.code = 1
    /\ ret.w = Top(t).w
    /\ \E u \in DOMAIN url_to_module_map[ret.w] :
         \E j \in 1..Len(imports[u]) : ~compiles[imports[u][j]]

----------------------------------------------------------------------------
(* The strings handed to the host: checked under SpecLife *)

\* C20: every string that lastException or sendSync hands to the host is
\* in a buffer at least as large as what was written into it: the
\* characters and the terminating NUL.
C20_BufferHoldsString ==
  ret.op \in {"last_exception", "send_sync"} =>
    /\ ret.val.written = Len(ret.val.str) + 1
    /\ ret.val.alloc >= ret.val.written

====
